---- MODULE Spec2Model ----
(***************************************************************************)
(* A model of stocktracker/main.go: the bars handler (handleCandles with   *)
(* fetchCandles) and the live-quote streaming handler (handleWS with       *)
(* fetchQuote and its time.Ticker).                                         *)
(*                                                                         *)
(* Time is counted in whole seconds.  A query parameter is a sequence of   *)
(* one-character strings, so that strconv.Atoi is modelled by what it      *)
(* does to the characters.                                                 *)
(***************************************************************************)
EXTENDS Integers, Sequences, FiniteSets, TLC

(***************************************************************************)
(* Bounds of the model.                                                    *)
(***************************************************************************)
MaxStrLen == 4
MaxLen == 1
MaxBarsClock == 1
MaxTime == 11
MaxTicksMulti == 1
MaxTicksLive == 1

(***************************************************************************)
(* Constants of the program.                                               *)
(***************************************************************************)
livePollInterval == 5
httpClientTimeout == 10
writeDeadline == 5
defaultMinutes == 60
maxMinutes == 5000

Sessions == {1, 2}

Chars == {"-", "+", "0", "5", "a"}
Symbols == {"", "TSLA"}
Prices == {100, 101}
StatusCodes == {200, 299, 300, 404}
CandleStatuses == {"ok", "no_data"}

VARIABLES
    now,        \* the wall clock, in seconds
    horizon,    \* the time up to which the clock is followed
    tick,       \* the resolution of the clock, in seconds
    clients,    \* the sessions whose client connects
    stalled,    \* the sessions whose client never accepts the data written
    grace,      \* the time past the horizon given to I/O calls in flight
    \* ---- handleCandles / fetchCandles
    bpc,        \* position of the bars handler
    rSymbol,    \* the request's symbol parameter
    rMinutes,   \* the request's minutes parameter, until the upstream is called
    symbol,     \* handleCandles: symbol
    minutes,    \* handleCandles / fetchCandles: minutes
    to,         \* fetchCandles: to
    from,       \* fetchCandles: from
    upCalls,    \* the candle requests received by the upstream, in order
    upOutcome,  \* what the upstream call of the bars handler produced
    resp,       \* the response written to the client
    \* ---- handleWS, one per session
    pc,         \* position of the handler
    wsQuery,    \* the request's symbol parameter
    wsSymbol,   \* handleWS: symbol
    conn,       \* the connection: "none", "open", "closed"
    nClose,     \* number of conn.Close() calls
    ticker,     \* the ticker: "none", "running", "stopped"
    tickerStart,\* time of time.NewTicker
    nextFire,   \* time of the ticker's next firing
    tickerC,    \* number of ticks buffered in ticker.C (capacity 1)
    ioDeadline, \* time by which the I/O call in flight returns
    q,          \* sendQuote: q.Current (0 when unset)
    payload,    \* sendQuote: payload
    quoteReq,   \* the symbol of the last quote request received by the upstream
    sentMsg,    \* the last message written to the client
    lastSentAt, \* the time the last message was written
    nFetch,     \* number of fetchQuote calls
    nOk,        \* number of fetchQuote calls that succeeded
    nSent,      \* number of messages written
    nFired,     \* number of firings of the ticker
    nConsumed,  \* number of ticks received from ticker.C
    failed,     \* TRUE once sendQuote returned an error
    peer,       \* the client's end: "open", "closed", "reset"
    afterClose  \* TRUE when the last fetch started after the client closed

barsVars == <<bpc, rSymbol, rMinutes, symbol, minutes, to, from, upCalls,
              upOutcome, resp>>
tickerVars == <<ticker, tickerStart, nextFire, tickerC, nFired>>
connVars == <<conn, nClose>>
quoteVars == <<ioDeadline, q, payload, quoteReq, sentMsg, lastSentAt,
               nFetch, nOk, nSent, nConsumed, failed>>
peerVars == <<peer, afterClose>>
wsVars == <<pc, wsQuery, wsSymbol, connVars, tickerVars, quoteVars, peerVars>>
envVars == <<horizon, tick, clients, stalled, grace>>
vars == <<now, envVars, barsVars, wsVars>>

(***************************************************************************)
(* strconv.Atoi on a string of at most 18 characters: an optional sign,    *)
(* then decimal digits only.                                               *)
(***************************************************************************)
Digits == {"0", "1", "2", "3", "4", "5", "6", "7", "8", "9"}

DigitVal(ch) ==
    CASE ch = "0" -> 0 [] ch = "1" -> 1 [] ch = "2" -> 2 [] ch = "3" -> 3
      [] ch = "4" -> 4 [] ch = "5" -> 5 [] ch = "6" -> 6 [] ch = "7" -> 7
      [] ch = "8" -> 8 [] ch = "9" -> 9

RECURSIVE AtoiDigits(_, _)
AtoiDigits(s, n) ==
    IF s = <<>> THEN [ok |-> TRUE, v |-> n]
    ELSE IF Head(s) \notin Digits THEN [ok |-> FALSE, v |-> 0]
    ELSE AtoiDigits(Tail(s), n * 10 + DigitVal(Head(s)))

Atoi(s) ==
    IF s = <<>> THEN [ok |-> FALSE, v |-> 0]
    ELSE LET signed == Head(s) \in {"-", "+"}
             body == IF signed THEN Tail(s) ELSE s
             r == AtoiDigits(body, 0)
         IN  IF body = <<>> THEN [ok |-> FALSE, v |-> 0]
             ELSE IF ~r.ok THEN r
             ELSE IF Head(s) = "-" THEN [ok |-> TRUE, v |-> 0 - r.v]
             ELSE r

(***************************************************************************)
(* The inputs.                                                             *)
(***************************************************************************)
MinuteStrings == UNION {[1..n -> Chars] : n \in 0..MaxStrLen}

SeqOf(base, n) == [i \in 1..n |-> base + i]

\* candleResp, as decoded from the upstream's body: the status and the
\* lengths of the six sequences
CandleResp(s, nt, no, nh, nl, nc, nv) ==
    [S |-> s, Time |-> SeqOf(1000, nt), Open |-> SeqOf(10, no),
     High |-> SeqOf(20, nh), Low |-> SeqOf(30, nl),
     Close |-> SeqOf(40, nc), Volume |-> SeqOf(50, nv)]

\* what httpClient.Get and the decoding of the body can produce
CandleFailures ==
    {[kind |-> "transport"]}
      \cup {[kind |-> "response", code |-> c, decoded |-> FALSE] : c \in StatusCodes}

CandleDecodable(code, c) ==
    [kind |-> "response", code |-> code, decoded |-> TRUE, c |-> c]

NoResp == [status |-> 0]
NoOutcome == [kind |-> "none"]

(***************************************************************************)
(* The HTTP helpers.                                                       *)
(***************************************************************************)
writeJSON(status, v) == [status |-> status, body |-> v]

badRequest(msg) == writeJSON(400, [error |-> msg])

serverErrorEcho(err) == writeJSON(500, [error |-> err])

serverError(err) == writeJSON(500, [error |-> "internal_error"])

(***************************************************************************)
(* handleCandles, lines 125-138: the symbol check and the parsing of       *)
(* minutes.                                                                *)
(***************************************************************************)
SymbolMissingNever(sym) == FALSE

SymbolMissing(sym) == sym = ""

ParseMinutesNoUpper(minStr) ==
    LET a == Atoi(minStr)
    IN  IF minStr # <<>> /\ a.ok /\ a.v > 0 THEN a.v ELSE defaultMinutes

ParseMinutes(minStr) ==
    LET a == Atoi(minStr)
    IN  IF minStr # <<>> /\ a.ok /\ a.v > 0 /\ a.v <= maxMinutes
        THEN a.v ELSE defaultMinutes

HandleCandles(sym, ms) ==
    /\ bpc = "idle"
    /\ rSymbol' = sym
    /\ rMinutes' = ms
    /\ symbol' = sym
    /\ IF SymbolMissing(sym)
       THEN /\ resp' = badRequest("symbol is required")
            /\ bpc' = "done"
            /\ UNCHANGED minutes
       ELSE /\ minutes' = ParseMinutes(ms)
            /\ bpc' = "fetchCandles"
            /\ UNCHANGED resp
    /\ UNCHANGED <<to, from, upCalls, upOutcome, now, envVars, wsVars>>

(***************************************************************************)
(* fetchCandles, lines 87-90: the default window and the first reading of  *)
(* the clock.                                                              *)
(***************************************************************************)
FetchCandlesTo ==
    /\ bpc = "fetchCandles"
    /\ minutes' = IF minutes <= 0 THEN defaultMinutes ELSE minutes
    /\ to' = now
    /\ bpc' = "from"
    /\ UNCHANGED <<rSymbol, rMinutes, symbol, from, upCalls, upOutcome, resp,
                   now, envVars, wsVars>>

(***************************************************************************)
(* fetchCandles, lines 91-95: the second reading of the clock and the      *)
(* request to the upstream.                                                *)
(***************************************************************************)
FetchCandlesFrom ==
    /\ bpc = "from"
    /\ from' = now - minutes * 60
    /\ upCalls' = Append(upCalls, [symbol |-> symbol, from |-> from', to |-> to])
    /\ rMinutes' = <<>>
    /\ bpc' = "get"
    /\ UNCHANGED <<rSymbol, symbol, minutes, to, upOutcome, resp,
                   now, envVars, wsVars>>

(***************************************************************************)
(* fetchCandles, lines 95-109: its result for an outcome of the call.      *)
(***************************************************************************)
FetchCandlesResult(o) ==
    IF o.kind = "transport" THEN [err |-> "transport"]
    ELSE IF o.code < 200 \/ o.code >= 300 THEN [err |-> "status"]
    ELSE IF ~o.decoded THEN [err |-> "decode"]
    ELSE [err |-> "", c |-> o.c]

(***************************************************************************)
(* handleCandles, lines 141-163: the response for a result of              *)
(* fetchCandles.                                                           *)
(***************************************************************************)
NoDataStatusOnly(c) == c.S # "ok"

\* line 145
NoData(c) == c.S # "ok" \/ Len(c.Time) = 0

CandlesResponseSwapped(sym, res) ==
    IF res.err # "" THEN serverError(res.err)
    ELSE IF NoData(res.c)
    THEN writeJSON(200, [symbol |-> sym, status |-> res.c.S, candles |-> <<>>])
    ELSE writeJSON(200, [symbol |-> sym, status |-> res.c.S,
                         t |-> res.c.Time, o |-> res.c.High, h |-> res.c.Open,
                         l |-> res.c.Low, c |-> res.c.Close, v |-> res.c.Volume])

CandlesResponse(sym, res) ==
    IF res.err # "" THEN serverError(res.err)
    ELSE IF NoData(res.c)
    THEN writeJSON(200, [symbol |-> sym, status |-> res.c.S, candles |-> <<>>])
    ELSE writeJSON(200, [symbol |-> sym, status |-> res.c.S,
                         t |-> res.c.Time, o |-> res.c.Open, h |-> res.c.High,
                         l |-> res.c.Low, c |-> res.c.Close, v |-> res.c.Volume])

FetchCandlesReturn(o) ==
    /\ bpc = "get"
    /\ upOutcome' = o
    /\ resp' = CandlesResponse(symbol, FetchCandlesResult(o))
    /\ bpc' = "done"
    /\ UNCHANGED <<rSymbol, rMinutes, symbol, minutes, to, from, upCalls,
                   now, envVars, wsVars>>

(***************************************************************************)
(* handleWS, lines 169-172: the session's symbol.                          *)
(***************************************************************************)
SessionSymbolNoDefault(sym) == sym

SessionSymbol(sym) == IF sym = "" THEN "AAPL" ELSE sym

WSRequest(s, sym) ==
    /\ s \in clients
    /\ pc[s] = "idle"
    /\ wsQuery' = [wsQuery EXCEPT ![s] = sym]
    /\ wsSymbol' = [wsSymbol EXCEPT ![s] = SessionSymbol(sym)]
    /\ pc' = [pc EXCEPT ![s] = "upgrade"]
    /\ UNCHANGED <<connVars, tickerVars, quoteVars, peerVars,
                   now, envVars, barsVars>>

(***************************************************************************)
(* handleWS, lines 174-179: the upgrade, which fails or yields the         *)
(* connection whose Close is deferred.                                     *)
(***************************************************************************)
UpgradeIgnoreError(s, ok) ==
    /\ pc[s] = "upgrade"
    /\ conn' = [conn EXCEPT ![s] = IF ok THEN "open" ELSE @]
    /\ pc' = [pc EXCEPT ![s] = "newTicker"]
    /\ UNCHANGED <<wsQuery, wsSymbol, nClose, tickerVars, quoteVars,
                   peerVars,
                   now, envVars, barsVars>>

Upgrade(s, ok) ==
    /\ pc[s] = "upgrade"
    /\ IF ok
       THEN /\ conn' = [conn EXCEPT ![s] = "open"]
            /\ pc' = [pc EXCEPT ![s] = "newTicker"]
       ELSE /\ pc' = [pc EXCEPT ![s] = "done"]
            /\ UNCHANGED conn
    /\ UNCHANGED <<wsQuery, wsSymbol, nClose, tickerVars, quoteVars,
                   peerVars,
                   now, envVars, barsVars>>

(***************************************************************************)
(* handleWS, lines 181-182: time.NewTicker(livePollInterval).              *)
(***************************************************************************)
NewTickerNotStarted(s) ==
    /\ pc[s] = "newTicker"
    /\ pc' = [pc EXCEPT ![s] = "sendQuote"]
    /\ UNCHANGED <<wsQuery, wsSymbol, connVars, tickerVars, quoteVars,
                   peerVars,
                   now, envVars, barsVars>>

NewTickerImmediate(s) ==
    /\ pc[s] = "newTicker"
    /\ ticker' = [ticker EXCEPT ![s] = "running"]
    /\ tickerStart' = [tickerStart EXCEPT ![s] = now]
    /\ nextFire' = [nextFire EXCEPT ![s] = now]
    /\ pc' = [pc EXCEPT ![s] = "sendQuote"]
    /\ UNCHANGED <<wsQuery, wsSymbol, connVars, tickerC, nFired, quoteVars,
                   peerVars,
                   now, envVars, barsVars>>

NewTicker(s) ==
    /\ pc[s] = "newTicker"
    /\ ticker' = [ticker EXCEPT ![s] = "running"]
    /\ tickerStart' = [tickerStart EXCEPT ![s] = now]
    /\ nextFire' = [nextFire EXCEPT ![s] = now + livePollInterval]
    /\ pc' = [pc EXCEPT ![s] = "sendQuote"]
    /\ UNCHANGED <<wsQuery, wsSymbol, connVars, tickerC, nFired, quoteVars,
                   peerVars,
                   now, envVars, barsVars>>

(***************************************************************************)
(* The runtime's ticker: at each firing it puts a tick into ticker.C       *)
(* unless the channel, of capacity 1, already holds one.                  *)
(***************************************************************************)
TickerFire(s) ==
    /\ ticker[s] = "running"
    /\ now = nextFire[s]
    /\ tickerC' = [tickerC EXCEPT ![s] = 1]
    /\ nFired' = [nFired EXCEPT ![s] = @ + 1]
    /\ nextFire' = [nextFire EXCEPT ![s] = @ + livePollInterval]
    /\ UNCHANGED <<pc, wsQuery, wsSymbol, connVars, ticker, tickerStart,
                   quoteVars, peerVars,
                   now, envVars, barsVars>>

(***************************************************************************)
(* fetchQuote, lines 68-69: the request to the upstream, which returns     *)
(* within the client's timeout.                                            *)
(***************************************************************************)
FetchQuoteCallSerialized(s) ==
    /\ pc[s] = "sendQuote"
    /\ \A other \in Sessions \ {s} : pc[other] # "fetchQuote"
    /\ quoteReq' = [quoteReq EXCEPT ![s] = wsSymbol[s]]
    /\ nFetch' = [nFetch EXCEPT ![s] = @ + 1]
    /\ ioDeadline' = [ioDeadline EXCEPT ![s] = now + httpClientTimeout]
    /\ afterClose' = [afterClose EXCEPT ![s] = (peer[s] # "open")]
    /\ pc' = [pc EXCEPT ![s] = "fetchQuote"]
    /\ UNCHANGED <<wsQuery, wsSymbol, connVars, tickerVars, q, payload, sentMsg,
                   lastSentAt, nOk, nSent, nConsumed, failed,
                   peer,
                   now, envVars, barsVars>>

FetchQuoteCall(s) ==
    /\ pc[s] = "sendQuote"
    /\ quoteReq' = [quoteReq EXCEPT ![s] = wsSymbol[s]]
    /\ nFetch' = [nFetch EXCEPT ![s] = @ + 1]
    /\ ioDeadline' = [ioDeadline EXCEPT ![s] = now + httpClientTimeout]
    /\ afterClose' = [afterClose EXCEPT ![s] = (peer[s] # "open")]
    /\ pc' = [pc EXCEPT ![s] = "fetchQuote"]
    /\ UNCHANGED <<wsQuery, wsSymbol, connVars, tickerVars, q, payload, sentMsg,
                   lastSentAt, nOk, nSent, nConsumed, failed,
                   peer,
                   now, envVars, barsVars>>

\* what httpClient.Get and the decoding of the body can produce
QuoteOutcomes ==
    {[kind |-> "transport"]}
      \cup {[kind |-> "response", code |-> c, decoded |-> FALSE] : c \in StatusCodes}
      \cup {[kind |-> "response", code |-> c, decoded |-> TRUE, Current |-> p] :
               c \in StatusCodes, p \in Prices}

(***************************************************************************)
(* fetchQuote, lines 70-83: its result for an outcome of the call.         *)
(***************************************************************************)
FetchQuoteResult(o) ==
    IF o.kind = "transport" THEN [err |-> "transport"]
    ELSE IF o.code < 200 \/ o.code >= 300 THEN [err |-> "status"]
    ELSE IF ~o.decoded THEN [err |-> "decode"]
    ELSE [err |-> "", Current |-> o.Current]

(***************************************************************************)
(* sendQuote, lines 186-189, and its callers on an error, lines 199-202    *)
(* and 205-208.  A response arrives before the timeout; at the timeout     *)
(* the call fails.                                                         *)
(***************************************************************************)
FetchQuoteReturnRetry(s, o) ==
    /\ pc[s] = "fetchQuote"
    /\ o.kind = "response" => now < ioDeadline[s]
    /\ LET res == FetchQuoteResult(o)
       IN  IF res.err # ""
           THEN /\ failed' = [failed EXCEPT ![s] = TRUE]
                /\ pc' = [pc EXCEPT ![s] = "sendQuote"]
                /\ UNCHANGED <<q, nOk>>
           ELSE /\ q' = [q EXCEPT ![s] = res.Current]
                /\ nOk' = [nOk EXCEPT ![s] = @ + 1]
                /\ pc' = [pc EXCEPT ![s] = "payload"]
                /\ UNCHANGED failed
    /\ UNCHANGED <<wsQuery, wsSymbol, connVars, tickerVars, ioDeadline, payload,
                   quoteReq, sentMsg, lastSentAt, nFetch, nSent, nConsumed,
                   peerVars,
                   now, envVars, barsVars>>

FetchQuoteReturn(s, o) ==
    /\ pc[s] = "fetchQuote"
    /\ o.kind = "response" => now < ioDeadline[s]
    /\ LET res == FetchQuoteResult(o)
       IN  IF res.err # ""
           THEN /\ failed' = [failed EXCEPT ![s] = TRUE]
                /\ pc' = [pc EXCEPT ![s] = "return"]
                /\ UNCHANGED <<q, nOk>>
           ELSE /\ q' = [q EXCEPT ![s] = res.Current]
                /\ nOk' = [nOk EXCEPT ![s] = @ + 1]
                /\ pc' = [pc EXCEPT ![s] = "payload"]
                /\ UNCHANGED failed
    /\ UNCHANGED <<wsQuery, wsSymbol, connVars, tickerVars, ioDeadline, payload,
                   quoteReq, sentMsg, lastSentAt, nFetch, nSent, nConsumed,
                   peerVars,
                   now, envVars, barsVars>>

NoMsg == [symbol |-> "", price |-> 0, time |-> 0]

(***************************************************************************)
(* sendQuote, lines 190-196: the payload, the write deadline and the       *)
(* start of the write.                                                     *)
(***************************************************************************)
WriteStartNoDeadline(s) ==
    /\ pc[s] = "payload"
    /\ payload' = [payload EXCEPT ![s] =
                      [symbol |-> wsSymbol[s], price |-> q[s], time |-> now * 1000]]
    /\ ioDeadline' = [ioDeadline EXCEPT ![s] = horizon + grace + 1]
    /\ pc' = [pc EXCEPT ![s] = "WriteJSON"]
    /\ UNCHANGED <<wsQuery, wsSymbol, connVars, tickerVars, q, quoteReq, sentMsg,
                   lastSentAt, nFetch, nOk, nSent, nConsumed, failed,
                   peerVars,
                   now, envVars, barsVars>>

WriteStartStale(s) ==
    /\ pc[s] = "payload"
    /\ payload' = [payload EXCEPT ![s] =
                      [symbol |-> wsSymbol[s], price |-> sentMsg[s].price,
                       time |-> now * 1000]]
    /\ ioDeadline' = [ioDeadline EXCEPT ![s] = now + writeDeadline]
    /\ pc' = [pc EXCEPT ![s] = "WriteJSON"]
    /\ UNCHANGED <<wsQuery, wsSymbol, connVars, tickerVars, q, quoteReq, sentMsg,
                   lastSentAt, nFetch, nOk, nSent, nConsumed, failed,
                   peerVars,
                   now, envVars, barsVars>>

WriteStart(s) ==
    /\ pc[s] = "payload"
    /\ payload' = [payload EXCEPT ![s] =
                      [symbol |-> wsSymbol[s], price |-> q[s], time |-> now * 1000]]
    /\ ioDeadline' = [ioDeadline EXCEPT ![s] = now + writeDeadline]
    /\ pc' = [pc EXCEPT ![s] = "WriteJSON"]
    /\ UNCHANGED <<wsQuery, wsSymbol, connVars, tickerVars, q, quoteReq, sentMsg,
                   lastSentAt, nFetch, nOk, nSent, nConsumed, failed,
                   peerVars,
                   now, envVars, barsVars>>

(***************************************************************************)
(* sendQuote, line 196, and its callers, lines 199-209: the write          *)
(* succeeds before the deadline, if the client accepts the data, or fails. *)
(* After a success the handler waits for the next tick.  The handler never *)
(* reads from the connection: after the client closed its end, a write is  *)
(* still taken by the transport, which the client answers with a reset,    *)
(* and a write after the reset fails.                                      *)
(***************************************************************************)
WriteReturn(s, ok) ==
    /\ pc[s] = "WriteJSON"
    /\ ok => (now < ioDeadline[s] /\ s \notin stalled /\ peer[s] # "reset")
    /\ peer' = [peer EXCEPT ![s] = IF ok /\ @ = "closed" THEN "reset" ELSE @]
    /\ IF ok
       THEN /\ sentMsg' = [sentMsg EXCEPT ![s] = payload[s]]
            /\ nSent' = [nSent EXCEPT ![s] = @ + 1]
            /\ lastSentAt' = [lastSentAt EXCEPT ![s] = now]
            /\ pc' = [pc EXCEPT ![s] = "wait"]
            /\ UNCHANGED failed
       ELSE /\ failed' = [failed EXCEPT ![s] = TRUE]
            /\ pc' = [pc EXCEPT ![s] = "return"]
            /\ UNCHANGED <<sentMsg, nSent, lastSentAt>>
    /\ q' = [q EXCEPT ![s] = 0]
    /\ payload' = [payload EXCEPT ![s] = NoMsg]
    /\ UNCHANGED <<wsQuery, wsSymbol, connVars, tickerVars, ioDeadline, quoteReq,
                   nFetch, nOk, nConsumed, afterClose,
                   now, envVars, barsVars>>

(***************************************************************************)
(* handleWS, line 204: the receive from ticker.C.                          *)
(***************************************************************************)
RecvTickConcurrent(s) ==
    /\ pc[s] \in {"wait", "fetchQuote", "payload", "WriteJSON"}
    /\ tickerC[s] = 1
    /\ tickerC' = [tickerC EXCEPT ![s] = 0]
    /\ nConsumed' = [nConsumed EXCEPT ![s] = @ + 1]
    /\ pc' = [pc EXCEPT ![s] = "sendQuote"]
    /\ UNCHANGED <<wsQuery, wsSymbol, connVars, ticker, tickerStart, nextFire,
                   nFired, ioDeadline, q, payload, quoteReq, sentMsg, lastSentAt,
                   nFetch, nOk, nSent, failed, peerVars,
                   now, envVars, barsVars>>

RecvTickNoWait(s) ==
    /\ pc[s] = "wait"
    /\ pc' = [pc EXCEPT ![s] = "sendQuote"]
    /\ UNCHANGED <<wsQuery, wsSymbol, connVars, tickerVars, quoteVars,
                   peerVars,
                   now, envVars, barsVars>>

RecvTick(s) ==
    /\ pc[s] = "wait"
    /\ tickerC[s] = 1
    /\ tickerC' = [tickerC EXCEPT ![s] = 0]
    /\ nConsumed' = [nConsumed EXCEPT ![s] = @ + 1]
    /\ pc' = [pc EXCEPT ![s] = "sendQuote"]
    /\ UNCHANGED <<wsQuery, wsSymbol, connVars, ticker, tickerStart, nextFire,
                   nFired, ioDeadline, q, payload, quoteReq, sentMsg, lastSentAt,
                   nFetch, nOk, nSent, failed, peerVars,
                   now, envVars, barsVars>>

(***************************************************************************)
(* handleWS, line 182, run at the return: ticker.Stop().                   *)
(***************************************************************************)
DeferTickerStopLeak(s) ==
    /\ pc[s] = "return"
    /\ pc' = [pc EXCEPT ![s] = "close"]
    /\ UNCHANGED <<wsQuery, wsSymbol, connVars, tickerVars, quoteVars,
                   peerVars,
                   now, envVars, barsVars>>

DeferTickerStop(s) ==
    /\ pc[s] = "return"
    /\ ticker' = [ticker EXCEPT ![s] = "stopped"]
    /\ pc' = [pc EXCEPT ![s] = "close"]
    /\ UNCHANGED <<wsQuery, wsSymbol, connVars, tickerStart, nextFire, tickerC,
                   nFired, quoteVars, peerVars,
                   now, envVars, barsVars>>

(***************************************************************************)
(* handleWS, line 179, run at the return: conn.Close().                    *)
(***************************************************************************)
DeferConnCloseLeak(s) ==
    /\ pc[s] = "close"
    /\ pc' = [pc EXCEPT ![s] = "done"]
    /\ UNCHANGED <<wsQuery, wsSymbol, connVars, tickerVars, quoteVars,
                   peerVars,
                   now, envVars, barsVars>>

DeferConnClose(s) ==
    /\ pc[s] = "close"
    /\ conn' = [conn EXCEPT ![s] = "closed"]
    /\ nClose' = [nClose EXCEPT ![s] = @ + 1]
    /\ pc' = [pc EXCEPT ![s] = "done"]
    /\ UNCHANGED <<wsQuery, wsSymbol, tickerVars, quoteVars,
                   peerVars,
                   now, envVars, barsVars>>

(***************************************************************************)
(* The clock.  It moves on by one tick, never past the firing of a running *)
(* ticker nor past the time by which an I/O call in flight returns.  It is *)
(* followed up to the horizon, and past it, for the time of grace, while   *)
(* an I/O call is in flight.                                               *)
(***************************************************************************)
InFlight(s) == pc[s] \in {"fetchQuote", "WriteJSON"}

Advance ==
    /\ \/ now + tick <= horizon
       \/ now + tick <= horizon + grace /\ \E s \in Sessions : InFlight(s)
    /\ \A s \in Sessions :
          /\ ticker[s] = "running" => now + tick <= nextFire[s]
          /\ InFlight(s) => now + tick <= ioDeadline[s]
    /\ now' = now + tick
    /\ UNCHANGED <<envVars, barsVars, wsVars>>

(***************************************************************************)
(* The state after construction, for a set of connecting clients, a        *)
(* horizon and a resolution of the clock, the stalled clients and the      *)
(* grace.                                                                  *)
(***************************************************************************)
InitWith(cl, hz, res, st, gr) ==
    /\ now = 0
    /\ horizon = hz
    /\ tick = res
    /\ clients = cl
    /\ stalled = st
    /\ grace = gr
    /\ bpc = "idle"
    /\ rSymbol = ""
    /\ rMinutes = <<>>
    /\ symbol = ""
    /\ minutes = 0
    /\ to = 0
    /\ from = 0
    /\ upCalls = <<>>
    /\ upOutcome = NoOutcome
    /\ resp = NoResp
    /\ pc = [s \in Sessions |-> "idle"]
    /\ wsQuery = [s \in Sessions |-> ""]
    /\ wsSymbol = [s \in Sessions |-> ""]
    /\ conn = [s \in Sessions |-> "none"]
    /\ nClose = [s \in Sessions |-> 0]
    /\ ticker = [s \in Sessions |-> "none"]
    /\ tickerStart = [s \in Sessions |-> 0]
    /\ nextFire = [s \in Sessions |-> 0]
    /\ tickerC = [s \in Sessions |-> 0]
    /\ ioDeadline = [s \in Sessions |-> 0]
    /\ q = [s \in Sessions |-> 0]
    /\ payload = [s \in Sessions |-> NoMsg]
    /\ quoteReq = [s \in Sessions |-> ""]
    /\ sentMsg = [s \in Sessions |-> NoMsg]
    /\ lastSentAt = [s \in Sessions |-> 0]
    /\ nFetch = [s \in Sessions |-> 0]
    /\ nOk = [s \in Sessions |-> 0]
    /\ nSent = [s \in Sessions |-> 0]
    /\ nFired = [s \in Sessions |-> 0]
    /\ nConsumed = [s \in Sessions |-> 0]
    /\ failed = [s \in Sessions |-> FALSE]
    /\ peer = [s \in Sessions |-> "open"]
    /\ afterClose = [s \in Sessions |-> FALSE]

\* clients that accept what is written, and no grace
InitFor(cl, hz, res) == InitWith(cl, hz, res, {}, 0)

\* one streaming client
Init == InitFor({1}, MaxTime, 1)

\* two concurrent streaming clients, the clock read once per poll interval
InitMulti == InitFor(Sessions, MaxTicksMulti * livePollInterval, livePollInterval)

\* one bars request
InitBars == InitFor({}, MaxBarsClock, 1)

Next ==
    \/ \E s \in Sessions, sym \in Symbols : WSRequest(s, sym)
    \/ \E s \in Sessions, ok \in BOOLEAN : Upgrade(s, ok)
    \/ \E s \in Sessions : NewTicker(s)
    \/ \E s \in Sessions : TickerFire(s)
    \/ \E s \in Sessions : FetchQuoteCall(s)
    \/ \E s \in Sessions, o \in QuoteOutcomes : FetchQuoteReturn(s, o)
    \/ \E s \in Sessions : WriteStart(s)
    \/ \E s \in Sessions, ok \in BOOLEAN : WriteReturn(s, ok)
    \/ \E s \in Sessions : RecvTick(s)
    \/ \E s \in Sessions : DeferTickerStop(s)
    \/ \E s \in Sessions : DeferConnClose(s)
    \/ Advance

NextBars ==
    \/ /\ bpc = "idle"
       /\ \E sym \in Symbols, ms \in MinuteStrings : HandleCandles(sym, ms)
    \/ FetchCandlesTo
    \/ FetchCandlesFrom
    \/ /\ bpc = "get"
       /\ \E o \in CandleFailures : FetchCandlesReturn(o)
    \/ /\ bpc = "get"
       /\ \E code \in StatusCodes, s \in CandleStatuses,
             nt, no, nh, nl, nc, nv \in 0..MaxLen :
             FetchCandlesReturn(
                 CandleDecodable(code, CandleResp(s, nt, no, nh, nl, nc, nv)))
    \/ Advance

Spec == Init /\ [][Next]_vars

SpecMulti == InitMulti /\ [][Next]_vars

SpecBars == InitBars /\ [][NextBars]_vars

(***************************************************************************)
(* The client of an upgraded connection closes its end.                    *)
(***************************************************************************)
ClientClose(s) ==
    /\ conn[s] = "open"
    /\ peer[s] = "open"
    /\ peer' = [peer EXCEPT ![s] = "closed"]
    /\ UNCHANGED <<pc, wsQuery, wsSymbol, connVars, tickerVars, quoteVars,
                   afterClose, now, envVars, barsVars>>

\* one streaming client that may close its end, the clock read once per
\* poll interval
InitClose == InitFor({1}, MaxTicksLive * livePollInterval, livePollInterval)

NextClose ==
    \/ Next
    \/ \E s \in Sessions : ClientClose(s)

SpecClose == InitClose /\ [][NextClose]_vars

(***************************************************************************)
(* One streaming client, stalled or not, the clock read once per poll      *)
(* interval, with what the scheduling                                      *)
(* guarantees: the clock moves on, a ticker that is due fires, a handler   *)
(* that can take a step takes it, a fetch returns at the latest when the   *)
(* timeout of httpClient (line 65) expires and a write at the latest when  *)
(* its deadline (line 195) expires.  Nothing makes the client connect, the *)
(* upstream answer or the client accept the data.                          *)
(***************************************************************************)
InitLive ==
    \E st \in SUBSET {1} :
        InitWith({1}, MaxTicksLive * livePollInterval, livePollInterval, st,
                 httpClientTimeout + writeDeadline)

HandlerStep(s) ==
    \/ NewTicker(s)
    \/ FetchQuoteCall(s)
    \/ WriteStart(s)
    \/ RecvTick(s)
    \/ DeferTickerStop(s)
    \/ DeferConnClose(s)

FetchTimeout(s) ==
    now = ioDeadline[s] /\ FetchQuoteReturn(s, [kind |-> "transport"])

WriteTimeout(s) ==
    now = ioDeadline[s] /\ WriteReturn(s, FALSE)

Fairness ==
    /\ WF_vars(Advance)
    /\ \A s \in Sessions :
          /\ WF_vars(TickerFire(s))
          /\ WF_vars(HandlerStep(s))
          /\ WF_vars(FetchTimeout(s))
          /\ WF_vars(WriteTimeout(s))

SpecLive == InitLive /\ [][Next]_vars /\ Fairness

\* the server with either one streaming client or one bars request: the two
\* handlers share no state, so each is followed on its own
InitEither == Init \/ InitBars

NextEither ==
    \/ clients # {} /\ Next
    \/ clients = {} /\ NextBars

SpecEither == InitEither /\ [][NextEither]_vars

(***************************************************************************)
(* Properties of the bars handler, checked under SpecBars.                 *)
(***************************************************************************)

\* the upstream's answer as the provider sent it: a 2xx status with a body
\* that decodes
UpstreamAnswered ==
    /\ upOutcome.kind = "response"
    /\ upOutcome.code >= 200 /\ upOutcome.code <= 299
    /\ upOutcome.decoded

\* C4: a bars request whose symbol is absent or empty is answered 400 with
\* the error "symbol is required", whatever its minutes parameter, and no
\* request goes to the upstream.
C4_EmptySymbolRejected ==
    (bpc # "idle" /\ rSymbol = "") =>
        /\ bpc = "done"
        /\ resp = [status |-> 400, body |-> [error |-> "symbol is required"]]
        /\ upCalls = <<>>
        /\ upOutcome = NoOutcome

C4_Witness ==
    /\ bpc = "done" /\ rSymbol = "" /\ rMinutes = <<"5", "0">>
    /\ resp.status = 400

\* C5: when the upstream answers a request for a non-empty symbol with a
\* status other than "ok" or with no timestamps, the response is 200 with the
\* request's symbol, the upstream's status and an empty candles array.
C5_NoDataIsEmptyResult ==
    (/\ bpc = "done" /\ rSymbol # "" /\ UpstreamAnswered
     /\ (upOutcome.c.S # "ok" \/ upOutcome.c.Time = <<>>)) =>
        resp = [status |-> 200,
                body |-> [symbol |-> rSymbol, status |-> upOutcome.c.S,
                          candles |-> <<>>]]

C5_Witness ==
    /\ bpc = "done" /\ rSymbol = "TSLA" /\ UpstreamAnswered
    /\ upOutcome.c.S = "ok" /\ upOutcome.c.Time = <<>>
    /\ Len(upOutcome.c.Open) = 1
    /\ resp.status = 200 /\ resp.body.candles = <<>>

SixLengths(t, o, h, l, c, v) == {Len(t), Len(o), Len(h), Len(l), Len(c), Len(v)}

\* C6 as stated: whenever the upstream answers with status "ok", the six
\* sequences of the response have one length.
C6_Original ==
    (/\ bpc = "done" /\ rSymbol # "" /\ UpstreamAnswered
     /\ upOutcome.c.S = "ok" /\ "t" \in DOMAIN resp.body) =>
        Cardinality(SixLengths(resp.body.t, resp.body.o, resp.body.h,
                               resp.body.l, resp.body.c, resp.body.v)) = 1

\* C6, amended: whenever the upstream answers with status "ok" and at least
\* one timestamp, the response carries the upstream's six sequences
\* unchanged, each under its own key; they have one length if the upstream's
\* six sequences have.
C6_SequencesPassedThrough ==
    (/\ bpc = "done" /\ rSymbol # "" /\ UpstreamAnswered
     /\ upOutcome.c.S = "ok" /\ upOutcome.c.Time # <<>>) =>
        /\ resp.status = 200
        /\ DOMAIN resp.body = {"symbol", "status", "t", "o", "h", "l", "c", "v"}
        /\ resp.body.t = upOutcome.c.Time
        /\ resp.body.o = upOutcome.c.Open
        /\ resp.body.h = upOutcome.c.High
        /\ resp.body.l = upOutcome.c.Low
        /\ resp.body.c = upOutcome.c.Close
        /\ resp.body.v = upOutcome.c.Volume
        /\ (Cardinality(SixLengths(upOutcome.c.Time, upOutcome.c.Open,
                                   upOutcome.c.High, upOutcome.c.Low,
                                   upOutcome.c.Close, upOutcome.c.Volume)) = 1
              => Cardinality(SixLengths(resp.body.t, resp.body.o, resp.body.h,
                                        resp.body.l, resp.body.c, resp.body.v)) = 1)

C6_Witness ==
    /\ bpc = "done" /\ rSymbol = "TSLA" /\ UpstreamAnswered
    /\ upOutcome.c.S = "ok"
    /\ SixLengths(upOutcome.c.Time, upOutcome.c.Open, upOutcome.c.High,
                  upOutcome.c.Low, upOutcome.c.Close, upOutcome.c.Volume) = {1}
    /\ resp.status = 200
    /\ SixLengths(resp.body.t, resp.body.o, resp.body.h,
                  resp.body.l, resp.body.c, resp.body.v) = {1}

\* the value of a decimal numeral, by the place of each digit
RECURSIVE Pow10(_)
Pow10(n) == IF n = 0 THEN 1 ELSE 10 * Pow10(n - 1)

RECURSIVE PlaceSum(_, _)
PlaceSum(d, i) ==
    IF i > Len(d) THEN 0
    ELSE DigitVal(d[i]) * Pow10(Len(d) - i) + PlaceSum(d, i + 1)

\* the window a minutes parameter asks for: its value when it is a decimal
\* integer (with an optional sign) in 1..5000, and 60 otherwise
RequestedWindow(str) ==
    LET neg == str # <<>> /\ str[1] = "-"
        d == IF str # <<>> /\ str[1] \in {"-", "+"} THEN SubSeq(str, 2, Len(str))
             ELSE str
        isInt == d # <<>> /\ \A i \in 1..Len(d) : d[i] \in Digits
        val == IF neg THEN 0 - PlaceSum(d, 1) ELSE PlaceSum(d, 1)
    IN  IF isInt /\ val >= 1 /\ val <= 5000 THEN val ELSE 60

\* C7: for a request with a non-empty symbol, the window passed to
\* fetchCandles is the value of the minutes parameter when that is an integer
\* in 1..5000 and 60 in every other case, and no response is written on
\* account of the minutes parameter.
C7_WindowOrDefault ==
    (bpc \in {"fetchCandles", "from"} /\ rSymbol # "") =>
        /\ minutes = RequestedWindow(rMinutes)
        /\ resp = NoResp

C7_Witness ==
    /\ bpc = "from" /\ rSymbol = "TSLA"
    /\ rMinutes = <<"5", "0", "0", "5">>
    /\ minutes = 60

\* C8: when the upstream call of a request for a non-empty symbol fails (no
\* response, a status outside 2xx, or a body that does not decode), the
\* response is 500 with the one body {error: "internal_error"}.
C8_UpstreamFailureIs500 ==
    (bpc = "done" /\ rSymbol # "" /\ ~UpstreamAnswered) =>
        resp = [status |-> 500, body |-> [error |-> "internal_error"]]

C8_Witness ==
    /\ bpc = "done" /\ rSymbol = "TSLA"
    /\ upOutcome.kind = "response" /\ upOutcome.code = 404 /\ upOutcome.decoded
    /\ resp.status = 500

\* C18: the request to the upstream covers the window that ends at the
\* current time and starts exactly the window's minutes earlier, whatever
\* the clock does during the call.
C18_ExactWindow ==
    \A i \in 1..Len(upCalls) :
        /\ upCalls[i].to - upCalls[i].from = 60 * minutes
        /\ upCalls[i].from <= upCalls[i].to

(***************************************************************************)
(* Properties of a streaming session, checked under Spec.                  *)
(***************************************************************************)

\* C1: after a failure of a quote fetch or of a write, on the first tick or
\* on a later one, the session's connection is closed exactly once (at the
\* handler's return it has been closed once, and it is never closed twice)
\* and no message is written after the failure.
C1_ClosedOnceAfterFailure ==
    /\ [](\A s \in Sessions :
            /\ nClose[s] <= 1
            /\ (failed[s] /\ pc[s] = "done") =>
                   (nClose[s] = 1 /\ conn[s] = "closed"))
    /\ [][\A s \in Sessions :
            failed[s] => (nSent'[s] = nSent[s] /\ sentMsg'[s] = sentMsg[s]
                          /\ pc'[s] \notin {"payload", "WriteJSON"})]_vars

C1_Witness ==
    \E s \in Sessions :
        /\ failed[s] /\ pc[s] = "done" /\ nSent[s] >= 1
        /\ nClose[s] = 1 /\ conn[s] = "closed"

\* C2: the first fetch and the first message happen with no tick received
\* from the ticker, and every later message is written after one more tick
\* has been received: message k+1 is written with exactly k ticks received,
\* each of them a firing of the ticker.
C2_FirstTickImmediate ==
    [][\A s \in Sessions :
         /\ nFetch'[s] # nFetch[s] =>
               (nFetch'[s] = nFetch[s] + 1 /\ nConsumed[s] = nFetch[s])
         /\ nSent'[s] # nSent[s] =>
               (nSent'[s] = nSent[s] + 1 /\ nConsumed[s] = nSent[s])
         /\ nConsumed'[s] <= nFired'[s]]_vars

C2_Witness ==
    \E s \in Sessions : nSent[s] = 2 /\ nConsumed[s] = 1 /\ nFired[s] = 1

RequestedSymbol(s) == IF wsQuery[s] = "" THEN "AAPL" ELSE wsQuery[s]

\* C9: the session's symbol is the symbol parameter of its request, or
\* "AAPL" when that is absent or empty; it stays so, and every quote request
\* to the upstream and every message written in the session carries it.
C9_SymbolFixed ==
    \A s \in Sessions :
        pc[s] # "idle" =>
            /\ wsSymbol[s] = RequestedSymbol(s)
            /\ nFetch[s] > 0 => quoteReq[s] = RequestedSymbol(s)
            /\ pc[s] = "WriteJSON" => payload[s].symbol = RequestedSymbol(s)
            /\ nSent[s] > 0 => sentMsg[s].symbol = RequestedSymbol(s)

C9_Witness ==
    \E s \in Sessions :
        /\ wsQuery[s] = "" /\ nSent[s] = 2
        /\ quoteReq[s] = "AAPL" /\ sentMsg[s].symbol = "AAPL"

\* a session is Closed once its handler has returned after an upgrade
Closed(s) == pc[s] = "done" /\ conn[s] # "none"

\* the positions of a fetch-and-send cycle
InCycle(s) == pc[s] \in {"sendQuote", "fetchQuote", "payload", "WriteJSON"}

\* C11: a session that has reached Closed, after a failure on the first tick
\* or on a later one, has stopped its ticker and closed its connection.
C11_ClosedReleasesBoth ==
    \A s \in Sessions :
        Closed(s) => (ticker[s] = "stopped" /\ conn[s] = "closed")

C11_Witness ==
    \E s \in Sessions :
        /\ Closed(s) /\ failed[s] /\ nSent[s] = 0
        /\ ticker[s] = "stopped" /\ conn[s] = "closed"

\* C12: a session has at most one fetch-and-send cycle in flight: a fetch
\* starts only when every earlier fetch of the session has ended in a written
\* message, also when the ticker fired while a cycle was running.
C12_OneCycleInFlight ==
    [][\A s \in Sessions :
         nFetch'[s] # nFetch[s] =>
             /\ nSent[s] = nFetch[s]
             /\ ~failed[s]
             /\ pc[s] = "sendQuote"]_vars

C12_Witness ==
    \E s \in Sessions :
        /\ pc[s] = "fetchQuote" /\ nFetch[s] = 2 /\ nSent[s] = 1
        /\ nFired[s] = 2 /\ tickerC[s] = 1

C17_OneCyclePerFiring ==
    /\ [](\A s \in Sessions :
            /\ nConsumed[s] <= nFired[s]
            /\ nFetch[s] <= 1 + nFired[s]
            /\ nSent[s] <= nOk[s] /\ nOk[s] <= nFetch[s]
            /\ pc[s] = "sendQuote" => nFetch[s] = nConsumed[s]
            /\ pc[s] \in {"fetchQuote", "payload", "WriteJSON", "wait"} =>
                  nFetch[s] = nConsumed[s] + 1)
    /\ [][\A s \in Sessions :
            /\ nConsumed'[s] # nConsumed[s] =>
                  (nConsumed'[s] = nConsumed[s] + 1 /\ pc'[s] = "sendQuote")
            /\ nSent'[s] # nSent[s] =>
                  /\ nOk[s] = nFetch[s] /\ nSent[s] = nFetch[s] - 1
                  /\ sentMsg'[s].price = q[s]
                  /\ sentMsg'[s].symbol = quoteReq[s]]_vars

C17_Witness ==
    \E s \in Sessions :
        /\ nFired[s] = 2 /\ nConsumed[s] = 2 /\ nFetch[s] = 3
        /\ nOk[s] = 3 /\ nSent[s] = 2 /\ failed[s]

\* C19: when the upgrade fails there is no session: the handler returns with
\* no connection, no ticker, no quote request and no message.
C19_NoSessionWithoutUpgrade ==
    \A s \in Sessions :
        conn[s] = "none" =>
            /\ pc[s] \in {"idle", "upgrade", "done"}
            /\ ticker[s] = "none" /\ nFired[s] = 0
            /\ nFetch[s] = 0 /\ nSent[s] = 0 /\ nClose[s] = 0
            /\ sentMsg[s] = NoMsg

C19_Witness ==
    \E s \in Sessions :
        /\ pc[s] = "done" /\ conn[s] = "none" /\ wsSymbol[s] = "TSLA"
        /\ now >= livePollInterval

(***************************************************************************)
(* Properties of concurrent sessions, checked under SpecMulti.             *)
(***************************************************************************)

\* what a session owns
Owned(s) ==
    <<conn[s], nClose[s], ticker[s], tickerStart[s], wsSymbol[s], ioDeadline[s],
      q[s], payload[s], quoteReq[s], sentMsg[s], nFetch[s], nOk[s], nSent[s],
      nConsumed[s], failed[s]>>

\* C10: sessions are independent.  A step changes the position of at most
\* one handler, and a session's connection, ticker and fetch-and-send cycle
\* change only in a step of its own handler: no failure, closure or other
\* step of a session closes another's connection, stops its ticker or
\* alters its cycle.  No session's state keeps another session from taking
\* its next step.
C10_SessionsIndependent ==
    /\ [][\A s \in Sessions :
            /\ pc'[s] = pc[s] => Owned(s)' = Owned(s)
            /\ pc'[s] # pc[s] =>
                  \A other \in Sessions \ {s} : pc'[other] = pc[other]]_vars
    /\ [](\A s \in Sessions :
            /\ pc[s] = "newTicker" => ENABLED NewTicker(s)
            /\ pc[s] = "sendQuote" => ENABLED FetchQuoteCall(s)
            /\ pc[s] = "fetchQuote" => ENABLED FetchQuoteReturn(s, [kind |-> "transport"])
            /\ pc[s] = "payload" => ENABLED WriteStart(s)
            /\ pc[s] = "WriteJSON" => ENABLED WriteReturn(s, FALSE)
            /\ (pc[s] = "wait" /\ tickerC[s] = 1) => ENABLED RecvTick(s)
            /\ pc[s] = "return" => ENABLED DeferTickerStop(s)
            /\ pc[s] = "close" => ENABLED DeferConnClose(s))

C10_Witness ==
    /\ failed[1] /\ pc[1] = "done" /\ conn[1] = "closed" /\ ticker[1] = "stopped"
    /\ conn[2] = "open" /\ ticker[2] = "running" /\ nSent[2] = 2

(***************************************************************************)
(* Properties of both handlers, checked under SpecEither.                  *)
(***************************************************************************)

\* C14: there are no retries.  A bars request makes at most one request to
\* the upstream, and none once it is answered; a session whose fetch or
\* write failed makes no further quote request.
C14_NoRetries ==
    /\ [](Len(upCalls) <= 1)
    /\ [][/\ bpc = "done" => upCalls' = upCalls
          /\ \A s \in Sessions :
                failed[s] => (nFetch'[s] = nFetch[s] /\ ~InCycle(s)')]_vars

C14_Witness ==
    \E s \in Sessions :
        /\ failed[s] /\ pc[s] = "done"
        /\ nFetch[s] = 2 /\ nOk[s] = 1 /\ nSent[s] = 1

(***************************************************************************)
(* Properties of a session under fair scheduling, checked under SpecLive.  *)
(***************************************************************************)

\* C15: a stalled client cannot block a session forever.  An I/O call in
\* flight never outlives the timeout or the deadline set for it, so every
\* fetch-and-send cycle ends; and the session of a client that never
\* accepts the written data eventually reaches Closed.
C15_StalledClientClosed ==
    /\ [](\A s \in Sessions : InFlight(s) => now <= ioDeadline[s])
    /\ \A s \in Sessions :
          (s \in stalled /\ InCycle(s)) ~> ~InCycle(s)
    /\ \A s \in Sessions :
          (s \in stalled /\ conn[s] = "open") ~> (Closed(s) /\ conn[s] = "closed")

C15_Witness ==
    \E s \in stalled :
        /\ Closed(s) /\ conn[s] = "closed" /\ failed[s]
        /\ nOk[s] = 1 /\ nSent[s] = 0
        /\ now = ioDeadline[s]

(***************************************************************************)
(* Properties of a session whose client closes, checked under SpecClose.   *)
(***************************************************************************)

\* C16: after the client closed the connection, the session discovers the
\* closure at its next attempted operation: no fetch-and-send cycle started
\* after the closure ends in a written message.
C16_NoCycleCompletesAfterClose ==
    [][\A s \in Sessions :
         (afterClose[s] /\ InCycle(s)) => nSent'[s] = nSent[s]]_vars

====
